---- MODULE Spec2Model ----
(***************************************************************************)
(* The lazy video loader of scripts/main.js as a state machine.            *)
(*                                                                         *)
(* The script's own state is `loadedVideos` and `observers` (the `state`   *)
(* object).  The rest is the part of the browser the script talks to: the  *)
(* video elements (source children, listeners, media readiness, paused     *)
(* flag, pending play promises), the overlay next to each video, and the   *)
(* IntersectionObservers with their queued entries.                        *)
(*                                                                         *)
(* Every handler of the script is one action; a handler that loops over    *)
(* entries or listeners does the whole loop in that action.                *)
(***************************************************************************)
EXTENDS Integers, Sequences, FiniteSets, TLC

\* Entries the lazy-load observer may hold queued for one target between two
\* deliveries of its callback.
MaxEntries == 3
\* Entries one pause/resume observer may hold queued between two deliveries.
MaxPauseEntries == 2

\* The pages modelled hold two video cards, each a
\* <video class="app-video lazy-video">; a video is named by its position in
\* document order.
Videos == {1, 2}

\* The value of a missing data-index (`undefined`, "undefined" inside a
\* template literal).
Undefined == "undefined"

(***************************************************************************)
(* Markup.  An element's markup is what the script reads from the DOM:     *)
(*   index     video.dataset.index                                         *)
(*   cardIndex video.closest('[data-index]').dataset.index                 *)
(*   src       whether data-src is present                                 *)
(*   overlay   the next sibling: "none" (no .video-overlay sibling),       *)
(*             "bare" (overlay without .loader), "loader"                  *)
(*   card      whether the video has an .app-card ancestor                 *)
(***************************************************************************)
Markup(index, cardIndex, src, overlay, card) ==
    [index |-> index, cardIndex |-> cardIndex, src |-> src,
     overlay |-> overlay, card |-> card]

\* Pages the loader is run on: the intended markup, and one page per way the
\* markup can depart from it (a shared index, the index on an ancestor only,
\* no index at all, a video outside a card next to one without data-src, an
\* overlay without .loader next to a video without overlay).
Pages ==
    { << Markup("1", Undefined, TRUE, "loader", TRUE),
         Markup("2", Undefined, TRUE, "loader", TRUE) >>,
      << Markup("1", Undefined, TRUE, "loader", TRUE),
         Markup("1", Undefined, TRUE, "loader", TRUE) >>,
      << Markup(Undefined, "1", TRUE, "loader", TRUE),
         Markup(Undefined, "2", TRUE, "loader", TRUE) >>,
      << Markup(Undefined, Undefined, TRUE, "loader", TRUE),
         Markup(Undefined, Undefined, TRUE, "loader", TRUE) >>,
      << Markup("1", Undefined, TRUE, "loader", FALSE),
         Markup("2", Undefined, FALSE, "loader", TRUE) >>,
      << Markup("1", Undefined, TRUE, "bare", TRUE),
         Markup("2", Undefined, TRUE, "none", TRUE) >> }

VARIABLES
    dom,            \* the page's markup, fixed once the page is parsed
    hasIO,          \* 'IntersectionObserver' in window
    phase,          \* "parsed" (script not run yet), "running", "cleaned"
    video,          \* per video: the state of the <video> element and overlay
    loadedVideos,   \* state.loadedVideos
    observers,      \* state.observers: key -> observer
    lazyReg,        \* lazy-load observer: per observed target, whether it intersected
                    \* (CONFIG's margin and threshold) when last computed
    lazyQ,          \* per video: queued entries of the lazy-load observer
    pauseReg,       \* per video whose pause/resume observer observes its card:
                    \* whether the card was at least 50% visible when last computed
    pauseQ,         \* per video: queued entries of its pause/resume observer
    reported,       \* history: an intersecting entry was handed to handleIntersection
    loadVideoCalls, \* history: invocations of loadVideo per element
    anim,           \* the background animator script of the page and its environment
    lastPlay        \* history: << >>, or <<v, by>> when the last step was a callback
                    \* of the pause/resume observer or a play button that called
                    \* play() on video v

\* The variables of the lazy video loader (scripts/main.js).
loaderVars == <<dom, hasIO, phase, video, loadedVideos, observers, lazyReg, lazyQ,
                pauseReg, pauseQ, reported, loadVideoCalls, lastPlay>>

vars == <<loaderVars, anim>>

\* The observation targets of the lazy-load observer, and the videos whose
\* pause/resume observer is observing.
lazyObs == DOMAIN lazyReg

pauseObs == DOMAIN pauseReg

Restrict(f, S) == [x \in S |-> f[x]]

Last(seq) == seq[Len(seq)]

\* Map as used by the script: set(key, value) adds or overwrites.
EmptyMap == [k \in {} |-> << >>]

MapSet(map, key, value) ==
    [k \in DOMAIN map \cup {key} |-> IF k = key THEN value ELSE map[k]]

MapValues(map) == { map[k] : k \in DOMAIN map }

\* The observers the script creates: the lazy-load observer and one
\* pause/resume observer per video.
LazyObserver == <<"video", 0>>

PauseObserver(v) == <<"pause", v>>

\* A video element before the script touches it.
FreshVideo ==
    [sources      |-> 0,        \* <source> children appended
     loads        |-> 0,        \* calls of video.load()
     onLoadeddata |-> 0,        \* registered once-listeners for 'loadeddata'
     onError      |-> 0,        \* registered once-listeners for 'error'
     media        |-> "empty",  \* "empty", "loading", "ready" (readyState >= 2), "failed"
     paused       |-> TRUE,     \* video.paused
     loaded       |-> FALSE,    \* classList contains 'loaded'
     glyph        |-> FALSE,    \* the .loader shows the error glyph
     buttons      |-> 0,        \* .play-button children of the overlay
     pending      |-> 0,        \* promises of the loader's play() calls still pending
     aborted      |-> 0,        \* such promises rejected by pause()/load(), reaction not yet run
     autoPlays    |-> 0,        \* history: play() calls made by handleVideoLoaded
     everFailed   |-> FALSE]    \* history: an 'error' event has fired on the element

\* The animator state on a page whose animator script is left out of account.
NoAnimator == [variant |-> "none"]

\* The loader before its script has run.
LoaderParsed ==
    /\ phase = "parsed"
    /\ video = [v \in Videos |-> FreshVideo]
    /\ loadedVideos = {}
    /\ observers = EmptyMap
    /\ lazyReg = EmptyMap
    /\ lazyQ = [v \in Videos |-> << >>]
    /\ pauseReg = EmptyMap
    /\ pauseQ = [v \in Videos |-> << >>]
    /\ reported = [v \in Videos |-> FALSE]
    /\ loadVideoCalls = [v \in Videos |-> 0]
    /\ lastPlay = << >>

Init ==
    /\ dom \in Pages
    /\ hasIO \in BOOLEAN
    /\ LoaderParsed
    /\ anim = NoAnimator

(***************************************************************************)
(* The media element (HTML standard).                                      *)
(***************************************************************************)

\* video.pause(): sets paused and rejects the pending play promises.
pause(el) ==
    [el EXCEPT !.paused = TRUE, !.aborted = @ + el.pending, !.pending = 0]

\* video.load(): restarts resource selection; like pause() it sets paused and
\* rejects pending play promises.
load(el) ==
    [pause(el) EXCEPT !.loads = @ + 1, !.media = "loading"]

\* video.play() where the promise has no reaction that changes state: when the
\* browser allows playback the element leaves the paused state, when it does
\* not (autoplay policy) nothing changes.
play(el, allowed) ==
    IF allowed THEN [el EXCEPT !.paused = FALSE] ELSE el

(***************************************************************************)
(* scripts/main.js                                                         *)
(***************************************************************************)

videoId(v) ==
    IF dom[v].index # Undefined THEN dom[v].index ELSE dom[v].cardIndex

\* Variant of addPlayButton that creates the button but never appends it.
addPlayButton_notAppended(el, v) ==
    el

addPlayButton(el, v) ==
    IF dom[v].overlay = "none" THEN el
    ELSE [el EXCEPT !.buttons = @ + 1]

\* handleVideoLoaded without the loaded-set update; `allowed` is the browser's
\* answer to play().  A rejected promise runs the catch reaction in the
\* microtask checkpoint of the same task.
handleVideoLoaded(el, v, allowed) ==
    LET marked == [el EXCEPT !.loaded = TRUE, !.autoPlays = @ + 1]
    IN  IF allowed
          THEN [marked EXCEPT !.paused = FALSE, !.pending = @ + 1]
          ELSE addPlayButton(marked, v)

\* Variant of loadVideo without the test for a missing data-src.
loadVideo_noSrcCheck(el, v) ==
    IF videoId(v) \in loadedVideos THEN el
    ELSE load([el EXCEPT !.onLoadeddata = @ + 1,
                         !.onError = @ + 1,
                         !.sources = @ + 1])

\* Variant of loadVideo that passes the result of calling handleVideoLoaded
\* to addEventListener instead of a listener, so the handler runs at once.
loadVideo_eagerHandler(el, v) ==
    IF videoId(v) \in loadedVideos THEN el
    ELSE IF ~dom[v].src THEN el
    ELSE load(handleVideoLoaded([el EXCEPT !.onError = @ + 1,
                                           !.sources = @ + 1], v, TRUE))

loadVideo(el, v) ==
    IF videoId(v) \in loadedVideos THEN el
    ELSE IF ~dom[v].src THEN el
    ELSE load([el EXCEPT !.onLoadeddata = @ + 1,
                         !.onError = @ + 1,
                         !.sources = @ + 1])

\* Variant of handleVideoError that retries the load after showing the glyph.
handleVideoError_retry(el, v) ==
    loadVideo(IF dom[v].overlay = "loader" THEN [el EXCEPT !.glyph = TRUE] ELSE el, v)

handleVideoError(el, v) ==
    IF dom[v].overlay = "loader" THEN [el EXCEPT !.glyph = TRUE] ELSE el

\* The 'loadeddata' event: every registered listener runs handleVideoLoaded,
\* and being { once: true } is removed.
RECURSIVE runLoadeddata(_, _, _, _)
runLoadeddata(el, v, n, allowed) ==
    IF n = 0 THEN [el EXCEPT !.onLoadeddata = 0]
    ELSE runLoadeddata(handleVideoLoaded(el, v, allowed), v, n - 1, allowed)

\* The 'error' event of the video element, likewise.
RECURSIVE runError(_, _, _)
runError(el, v, n) ==
    IF n = 0 THEN [el EXCEPT !.onError = 0]
    ELSE runError(handleVideoError(el, v), v, n - 1)

\* handleIntersection restricted to the entries whose target is v (loadVideo
\* reads the loaded-set, which no step of the callback writes, and touches
\* its own element only, so entries of other targets do not matter).
\* Variant of handleEntry that forgets the isIntersecting test.
handleEntry_anyEntry(el, v, isIntersecting) ==
    loadVideo(el, v)

handleEntry(el, v, isIntersecting) ==
    IF isIntersecting THEN loadVideo(el, v) ELSE el

RECURSIVE handleIntersection(_, _, _)
handleIntersection(el, v, entries) ==
    IF entries = << >> THEN el
    ELSE handleIntersection(handleEntry(el, v, Head(entries)), v, Tail(entries))

\* Variant of unobserved in which handleIntersection never calls unobserve.
unobserved_never(queues) ==
    {}

\* The targets handleIntersection unobserves in one callback.
unobserved(queues) ==
    { v \in Videos : \E i \in 1..Len(queues[v]) : queues[v][i] }

Intersecting(entries) ==
    Cardinality({ i \in 1..Len(entries) : entries[i] })

\* setupVideoInteractions: the registry after the videos 1..n were wired, in
\* document order.
RECURSIVE setupVideoInteractions(_, _)
setupVideoInteractions(map, n) ==
    IF n = 0 THEN map
    ELSE LET before == setupVideoInteractions(map, n - 1)
         IN  IF ~dom[n].card THEN before
             ELSE MapSet(before, "pause-" \o dom[n].index, PauseObserver(n))

\* Variant of pauseCall without the readyState test.
pauseCall_noReadyCheck(el, isIntersecting) ==
    IF ~isIntersecting /\ ~el.paused THEN "pause"
    ELSE IF isIntersecting /\ el.paused THEN "play"
    ELSE "none"

\* Variant of pauseCall with the first test inverted, so that a playing video
\* whose card leaves the viewport is left playing.
pauseCall_pauseInverted(el, isIntersecting) ==
    IF ~isIntersecting /\ el.paused THEN "pause"
    ELSE IF isIntersecting /\ el.paused /\ el.media = "ready" THEN "play"
    ELSE "none"

\* Which media call the pause/resume callback makes for one entry.
pauseCall(el, isIntersecting) ==
    IF ~isIntersecting /\ ~el.paused THEN "pause"
    ELSE IF isIntersecting /\ el.paused /\ el.media = "ready" THEN "play"
    ELSE "none"

\* Variant of pauseEntry that restarts the load before resuming.
pauseEntry_reload(el, isIntersecting, allowed) ==
    CASE pauseCall(el, isIntersecting) = "pause" -> pause(el)
      [] pauseCall(el, isIntersecting) = "play"  -> play(load(el), allowed)
      [] OTHER -> el

pauseEntry(el, isIntersecting, allowed) ==
    CASE pauseCall(el, isIntersecting) = "pause" -> pause(el)
      [] pauseCall(el, isIntersecting) = "play"  -> play(el, allowed)
      [] OTHER -> el

\* The pause/resume callback over its entries, in order.
RECURSIVE pauseCallback(_, _, _)
pauseCallback(el, entries, allowed) ==
    IF entries = << >> THEN el
    ELSE pauseCallback(pauseEntry(el, Head(entries), allowed),
                       Tail(entries), allowed)

\* History of that callback: whether it called play().
RECURSIVE pausePlays(_, _, _)
pausePlays(el, entries, allowed) ==
    IF entries = << >> THEN FALSE
    ELSE \/ pauseCall(el, Head(entries)) = "play"
         \/ pausePlays(pauseEntry(el, Head(entries), allowed), Tail(entries), allowed)

(***************************************************************************)
(* Actions of the script.                                                  *)
(***************************************************************************)

\* A fallback that loads only the first lazy video of the page.
loadAllVideos_firstOnly(videos) ==
    [v \in Videos |-> IF v = 1 THEN loadVideo(videos[v], v) ELSE videos[v]]

\* loadAllVideos(): fallback for browsers without IntersectionObserver;
\* querySelectorAll('video[data-lazy]').forEach(loadVideo).
loadAllVideos(videos) ==
    [v \in Videos |-> loadVideo(videos[v], v)]

\* init(), run once the DOM is ready.  With IntersectionObserver it sets up
\* both kinds of observers (each observer queues a first entry for every
\* target it is given); without, it loads every video.
init ==
    /\ phase = "parsed"
    /\ phase' = "running"
    /\ IF hasIO
         THEN /\ observers' = setupVideoInteractions(
                                 MapSet(EmptyMap, "video", LazyObserver), Len(dom))
              /\ lazyReg' \in [Videos -> BOOLEAN]
              /\ lazyQ' = [v \in Videos |-> <<lazyReg'[v]>>]
              /\ pauseReg' \in [{ v \in Videos : dom[v].card } -> BOOLEAN]
              /\ pauseQ' = [v \in Videos |->
                              IF dom[v].card THEN <<pauseReg'[v]>> ELSE << >>]
              /\ UNCHANGED <<video, loadVideoCalls>>
         ELSE /\ video' = loadAllVideos(video)
              /\ loadVideoCalls' = [v \in Videos |-> loadVideoCalls[v] + 1]
              /\ UNCHANGED <<observers, lazyReg, lazyQ, pauseReg, pauseQ>>
    /\ lastPlay' = << >>
    /\ UNCHANGED <<anim, dom, hasIO, loadedVideos, reported>>

\* The lazy-load observer delivers its queued entries to handleIntersection.
DeliverLazy ==
    /\ \E v \in Videos : lazyQ[v] # << >>
    /\ video' = [v \in Videos |-> handleIntersection(video[v], v, lazyQ[v])]
    /\ lazyReg' = Restrict(lazyReg, lazyObs \ unobserved(lazyQ))
    /\ lazyQ' = [v \in Videos |-> << >>]
    /\ reported' = [v \in Videos |-> reported[v] \/ Intersecting(lazyQ[v]) > 0]
    /\ loadVideoCalls' = [v \in Videos |->
                            loadVideoCalls[v] + Intersecting(lazyQ[v])]
    /\ lastPlay' = << >>
    /\ UNCHANGED <<anim, dom, hasIO, phase, loadedVideos, observers, pauseReg, pauseQ>>

\* 'loadeddata' fires on a loading video: the media has current data.
LoadedData(v) ==
    /\ video[v].media = "loading"
    /\ \E allowed \in BOOLEAN :
          video' = [video EXCEPT ![v] =
                      runLoadeddata([@ EXCEPT !.media = "ready"], v,
                                    @.onLoadeddata, allowed)]
    /\ loadedVideos' = IF video[v].onLoadeddata > 0
                         THEN loadedVideos \cup {videoId(v)}
                         ELSE loadedVideos
    /\ lastPlay' = << >>
    /\ UNCHANGED <<anim, dom, hasIO, phase, observers, lazyReg, lazyQ, pauseReg,
                   pauseQ, reported, loadVideoCalls>>

\* 'error' fires on a loading video: the load failed for good.
MediaError(v) ==
    /\ video[v].media = "loading"
    /\ video' = [video EXCEPT ![v] =
                    runError([@ EXCEPT !.media = "failed", !.everFailed = TRUE],
                             v, @.onError)]
    /\ lastPlay' = << >>
    /\ UNCHANGED <<anim, dom, hasIO, phase, loadedVideos, observers, lazyReg, lazyQ,
                   pauseReg, pauseQ, reported, loadVideoCalls>>

\* A pending promise of the loader's play() resolves: playback has begun.
AutoplayResolved(v) ==
    /\ video[v].pending > 0
    /\ video' = [video EXCEPT ![v].pending = @ - 1]
    /\ lastPlay' = << >>
    /\ UNCHANGED <<anim, dom, hasIO, phase, loadedVideos, observers, lazyReg, lazyQ,
                   pauseReg, pauseQ, reported, loadVideoCalls>>

\* A promise of the loader's play() that pause() rejected runs its catch
\* reaction.
AutoplayRejected(v) ==
    /\ video[v].aborted > 0
    /\ video' = [video EXCEPT ![v] = addPlayButton([@ EXCEPT !.aborted = @ - 1], v)]
    /\ lastPlay' = << >>
    /\ UNCHANGED <<anim, dom, hasIO, phase, loadedVideos, observers, lazyReg, lazyQ,
                   pauseReg, pauseQ, reported, loadVideoCalls>>

\* The click listener of a play button (a user gesture, so play() is allowed).
ClickPlayButton(v) ==
    /\ video[v].buttons > 0
    /\ video' = [video EXCEPT ![v] = [play(@, TRUE) EXCEPT !.buttons = @ - 1]]
    /\ lastPlay' = <<v, "playButton">>
    /\ UNCHANGED <<anim, dom, hasIO, phase, loadedVideos, observers, lazyReg, lazyQ,
                   pauseReg, pauseQ, reported, loadVideoCalls>>

\* The pause/resume observer of video v delivers its queued entries.
DeliverPause(v) ==
    /\ pauseQ[v] # << >>
    /\ \E allowed \in BOOLEAN :
          /\ video' = [video EXCEPT ![v] = pauseCallback(@, pauseQ[v], allowed)]
          /\ lastPlay' = IF pausePlays(video[v], pauseQ[v], allowed)
                           THEN <<v, "pauseObserver">> ELSE << >>
    /\ pauseQ' = [pauseQ EXCEPT ![v] = << >>]
    /\ UNCHANGED <<anim, dom, hasIO, phase, loadedVideos, observers, lazyReg, lazyQ,
                   pauseReg, reported, loadVideoCalls>>

\* cleanup() on beforeunload: disconnect every observer in the registry,
\* clear the registry and the loaded-set.
cleanup ==
    /\ phase = "running"
    /\ phase' = "cleaned"
    /\ lazyReg' = IF LazyObserver \in MapValues(observers) THEN EmptyMap ELSE lazyReg
    /\ pauseReg' = Restrict(pauseReg, { v \in pauseObs :
                                PauseObserver(v) \notin MapValues(observers) })
    /\ observers' = EmptyMap
    /\ loadedVideos' = {}
    /\ lastPlay' = << >>
    /\ UNCHANGED <<anim, dom, hasIO, video, lazyQ, pauseQ, reported, loadVideoCalls>>

(***************************************************************************)
(* Actions of the page: scrolling changes what intersects the viewport,    *)
(* and an observer queues an entry when one of its targets changes.  A     *)
(* target no observer observes has no intersection state to change.        *)
(***************************************************************************)

ScrollVideo(v) ==
    /\ v \in lazyObs
    /\ Len(lazyQ[v]) < MaxEntries
    /\ lazyReg' = [lazyReg EXCEPT ![v] = ~@]
    /\ lazyQ' = [lazyQ EXCEPT ![v] = Append(@, ~lazyReg[v])]
    /\ lastPlay' = << >>
    /\ UNCHANGED <<anim, dom, hasIO, phase, video, loadedVideos, observers, pauseReg,
                   pauseQ, reported, loadVideoCalls>>

ScrollCard(v) ==
    /\ v \in pauseObs
    /\ Len(pauseQ[v]) < MaxPauseEntries
    /\ pauseReg' = [pauseReg EXCEPT ![v] = ~@]
    /\ pauseQ' = [pauseQ EXCEPT ![v] = Append(@, ~pauseReg[v])]
    /\ lastPlay' = << >>
    /\ UNCHANGED <<anim, dom, hasIO, phase, video, loadedVideos, observers, lazyReg,
                   lazyQ, reported, loadVideoCalls>>

Next ==
    \/ init
    \/ DeliverLazy
    \/ \E v \in Videos : LoadedData(v)
    \/ \E v \in Videos : MediaError(v)
    \/ \E v \in Videos : AutoplayResolved(v)
    \/ \E v \in Videos : AutoplayRejected(v)
    \/ \E v \in Videos : ClickPlayButton(v)
    \/ \E v \in Videos : DeliverPause(v)
    \/ cleanup
    \/ \E v \in Videos : ScrollVideo(v)
    \/ \E v \in Videos : ScrollCard(v)

Spec == Init /\ [][Next]_vars

(***************************************************************************)
(* The background animators: scripts/night-sky.js (the foreground stars    *)
(* overlay and the simple starfield), unnamed/part_000 (celestial chart    *)
(* with canvas fallback), unnamed/part_001 (photorealistic Milky Way) and  *)
(* unnamed/part_002 (Three.js galaxy).  A page carries one of them; anim   *)
(* holds the script's variables and the part of the browser it talks to.   *)
(***************************************************************************)

\* Largest window side, in canvas units.
MaxSide == 3
\* Animation-frame callbacks followed per page.
MaxFrames == 1
\* Ticks of the chart's interval followed per page.
MaxTicks == 2
\* Steps in which the model lets the debounce wait elapse.
TimeSteps == 1
\* Polls of checkAndInit followed per page.
MaxPolls == 51

\* CONFIG.starCount of the simple starfield.
starCount == 300
\* Stars of the foreground overlay.
foregroundStars == 500
\* Main stars and Milky Way band stars of the chart's canvas fallback.
fallbackStars == 2000
fallbackBandStars == 3000
\* CONFIG of the photorealistic Milky Way.
whiteStars == 3000
milkyWayCoreStars == 6000
milkyWayEdgeStars == 3000
\* CONFIG.starCount of the galaxy.
galaxyStarCount == 2000
\* Polls after which checkAndInit gives up waiting for the libraries.
maxAttempts == 50
\* Wait of the starfield's debounced resize listener, in ms.
debounceWait == 250
\* Speed multiplier of the celestial clock: simulated seconds per tick second.
timeSpeed == 120

Variants == {"foreground", "starfield", "chart", "milkyway", "galaxy", "celestial"}

\* The scripts that test for or use a library: d3 and Celestial, or THREE.
LibraryUsers == {"chart", "galaxy", "celestial"}

Sides == 1 .. MaxSide

\* window.innerWidth x window.innerHeight
Viewports == { [w |-> x, h |-> y] : x \in Sides, y \in Sides }

\* A canvas the script has not sized yet.
Unsized == [w |-> 0, h |-> 0]

\* A particle set is known by its size (count, and band for the chart's
\* second array), by its right-most and lowest particle, and by whether the
\* x positions have become NaN (then right is the value they had before).
NoStars == [count |-> 0, band |-> 0, right |-> 0, bottom |-> 0, nan |-> FALSE]

\* Math.random() over a whole particle set: per axis, whether some particle
\* drew a value that puts it in the last column (row) of the canvas, or all
\* of them drew 0.
Draws == { [x |-> dx, y |-> dy] : dx \in BOOLEAN, dy \in BOOLEAN }

\* Math.random() * size, in whole canvas units.
Coordinate(high, size) == IF high THEN size - 1 ELSE 0

\* count (+ band) particles at Math.random() * width, Math.random() * height.
Scatter(count, band, size, rnd) ==
    [count |-> count, band |-> band,
     right |-> Coordinate(rnd.x, size.w), bottom |-> Coordinate(rnd.y, size.h),
     nan |-> FALSE]

\* The page before the animator script has run.
FreshAnimator(variant, element, library, readyState, viewport) ==
    [variant          |-> variant,
     element          |-> element,    \* the container / canvas the script looks up exists
     library          |-> library,    \* d3 and Celestial (chart), THREE (galaxy) are defined
     readyState       |-> readyState, \* document.readyState
     viewport         |-> viewport,
     script           |-> "notRun",   \* "notRun", "waitingDOM", "polling", "initialised",
                                      \* "returned" (init gave up), "threw" (uncaught error)
     errorLogged      |-> FALSE,      \* console.error was called
     checkAttempts    |-> 0,          \* chart: checkAttempts; celestial: history, calls
                                      \* of checkAndInit
     pollTimer        |-> FALSE,      \* a setTimeout(checkAndInit, 100) is pending
     initCalls        |-> 0,          \* history: calls of the chart's init
     useFallback      |-> FALSE,
     renderer         |-> "none",     \* chart: "none", "celestial" or "canvas"
     animationRunning |-> FALSE,      \* chart, celestial: the script's animationRunning
     animationInterval |-> "undefined", \* the timer animationInterval names: "undefined",
                                      \* "active" or "cleared"
     intervals        |-> 0,          \* interval timers that are active
     currentTime      |-> 0,          \* the simulated clock, in ms since its initial time
     redraws          |-> 0,          \* history: Celestial.redraw() calls that returned
     ticks            |-> 0,          \* history: callbacks of the interval
     webgl            |-> "none",     \* galaxy: the WebGLRenderer, "none", "live", "disposed"
     canvas           |-> Unsized,
     stars            |-> NoStars,
     rafCount         |-> 0,          \* requestAnimationFrame calls so far; handles are 1, 2, ..
     rafPending       |-> {},         \* handles of the frame requests not yet run or cancelled
     animationId      |-> 0,          \* the script's animationId, 0 while undefined
     framesRun        |-> 0,          \* history: animation-frame callbacks executed
     lastTime         |-> TRUE,       \* foreground: lastTime holds a number (performance.now())
     deltaTime        |-> "none",     \* foreground: deltaTime of the last frame drawn:
                                      \* "none", "finite" (a number >= 0) or "NaN"
     resizeListener   |-> FALSE,
     unloadListener   |-> FALSE,
     debounceTimers   |-> << >>,      \* starfield: ms since each pending timeout of the
                                      \* debounce was set, oldest first
     timeoutPending   |-> FALSE,      \* the timer the debounce's 'timeout' names is pending
                                      \* (it is the youngest one then)
     sinceResize      |-> 0,          \* history: ms since the listener last got 'resize'
     burst            |-> FALSE,      \* history: the debounced listener has got 'resize'
     burstEvents      |-> 0,          \* history: events of the current burst (events less
                                      \* than the wait apart), followed up to 2
     runsInBurst      |-> 0,          \* history: resize() runs since it last got one
     resizeHandled    |-> FALSE,      \* history: a resize handler has resized the canvas
     redrawn          |-> FALSE,      \* history: a frame was drawn since the last resize
     unloadRan        |-> FALSE]      \* history: beforeunload was dispatched

\* The markup the loader is written for.
IntendedPage ==
    << Markup("1", Undefined, TRUE, "loader", TRUE),
       Markup("2", Undefined, TRUE, "loader", TRUE) >>

InitAnimators ==
    /\ dom = IntendedPage
    /\ hasIO = TRUE
    /\ LoaderParsed
    /\ anim \in { FreshAnimator(variant, element, library, readyState, viewport) :
                    variant \in Variants, element \in BOOLEAN, library \in BOOLEAN,
                    readyState \in {"loading", "interactive", "complete"},
                    viewport \in Viewports }
    /\ anim.library => anim.variant \in LibraryUsers

(***************************************************************************)
(* window.requestAnimationFrame / cancelAnimationFrame (HTML standard).    *)
(***************************************************************************)

requestAnimationFrame(a) ==
    [a EXCEPT !.rafCount = @ + 1, !.rafPending = @ \cup {a.rafCount + 1}]

cancelAnimationFrame(a, id) ==
    [a EXCEPT !.rafPending = @ \ {id}]

(***************************************************************************)
(* The animation loops.                                                    *)
(***************************************************************************)

\* A loop that keeps the handle of its request in animationId (simple
\* starfield, Milky Way, galaxy).
animateKeepingId(a) ==
    [requestAnimationFrame(a) EXCEPT !.animationId = a.rafCount + 1,
                                     !.redrawn = TRUE]

\* A loop that drops the handle (foreground stars' animate, the chart's
\* animateCanvas).
animateDroppingId(a) ==
    [requestAnimationFrame(a) EXCEPT !.redrawn = TRUE]

\* animate(currentTime) of the foreground stars.  timestamp is whether the
\* call carries a frame timestamp (an animation-frame callback) or no
\* argument (the call in init): deltaTime = (currentTime - lastTime) / 1000 is
\* NaN when either is undefined, and Star.update adds driftSpeed * deltaTime
\* to every x, which a NaN turns into NaN for good (x > width + 50 is then
\* false, so the wrap-around does not reset it).
foregroundAnimate(a, timestamp) ==
    LET isNaN == ~timestamp \/ ~a.lastTime
    IN  animateDroppingId(
            [a EXCEPT !.deltaTime = IF isNaN THEN "NaN" ELSE "finite",
                      !.lastTime = timestamp,
                      !.stars.nan = @ \/ (isNaN /\ a.stars.count > 0)])

\* animate / animateCanvas of the page's variant, called with a frame
\* timestamp or without: draw, request the next frame.  Only the foreground
\* stars declare and use the parameter.
animate(a, timestamp) ==
    IF a.variant = "foreground" THEN foregroundAnimate(a, timestamp)
    ELSE IF a.variant \in {"starfield", "milkyway", "galaxy"}
      THEN animateKeepingId(a)
      ELSE animateDroppingId(a)

(***************************************************************************)
(* Foreground stars overlay (scripts/night-sky.js, first script).          *)
(***************************************************************************)

foregroundResize(a, rnd) ==
    [a EXCEPT !.canvas = a.viewport,
              !.stars = Scatter(foregroundStars, 0, a.viewport, rnd),
              !.resizeHandled = TRUE, !.redrawn = FALSE]

foregroundInit(a, rnd) ==
    IF ~a.element THEN [a EXCEPT !.script = "returned"]
    ELSE [animate([a EXCEPT !.canvas = a.viewport,
                            !.stars = Scatter(foregroundStars, 0, a.viewport, rnd)],
                  FALSE)
            EXCEPT !.resizeListener = TRUE, !.script = "initialised"]

(***************************************************************************)
(* Simple starfield (scripts/night-sky.js, last script).                   *)
(***************************************************************************)

createStars(a, rnd) ==
    [a EXCEPT !.stars = Scatter(starCount, 0, a.canvas, rnd)]

\* Variant of resize that resizes the canvas and keeps the particles.
starfieldResize_keepStars(a, rnd) ==
    [a EXCEPT !.canvas = a.viewport]

\* resize(): the canvas takes the window's size; an existing particle set is
\* recreated.
starfieldResize(a, rnd) ==
    IF a.stars.count > 0
      THEN createStars([a EXCEPT !.canvas = a.viewport], rnd)
      ELSE [a EXCEPT !.canvas = a.viewport]

\* clearTimeout(timeout) inside the debounce.
clearTimeout(a) ==
    IF a.timeoutPending
      THEN [a EXCEPT !.debounceTimers = SubSeq(@, 1, Len(@) - 1),
                     !.timeoutPending = FALSE]
      ELSE a

\* Variant of the debounced listener that sets its timeout without clearing
\* the one before.
executedFunction_noClear(a) ==
    [a EXCEPT !.debounceTimers = Append(@, 0), !.timeoutPending = TRUE,
              !.burstEvents = IF a.burst /\ a.sinceResize < debounceWait THEN 2 ELSE 1,
              !.sinceResize = 0, !.burst = TRUE, !.runsInBurst = 0]

\* debounce(resize, 250): the listener, executedFunction, clears the pending
\* timeout and sets a new one.
executedFunction(a) ==
    [clearTimeout(a) EXCEPT !.debounceTimers = Append(@, 0), !.timeoutPending = TRUE,
                            !.burstEvents = IF a.burst /\ a.sinceResize < debounceWait
                                              THEN 2 ELSE 1,
                            !.sinceResize = 0, !.burst = TRUE, !.runsInBurst = 0]

\* later(): the i-th pending timeout fires; clearTimeout(timeout), then
\* resize().
later(a, i, rnd) ==
    LET fired == [a EXCEPT !.debounceTimers =
                               SubSeq(@, 1, i - 1) \o SubSeq(@, i + 1, Len(@)),
                           !.timeoutPending = @ /\ i # Len(a.debounceTimers)]
    IN  [starfieldResize(clearTimeout(fired), rnd)
           EXCEPT !.runsInBurst = @ + 1, !.resizeHandled = TRUE, !.redrawn = FALSE]

\* The clock advances by one step; a timeout's age is followed up to the wait.
elapse(a) ==
    LET step    == debounceWait \div TimeSteps
        aged(t) == IF t + step >= debounceWait THEN debounceWait ELSE t + step
    IN  [a EXCEPT !.debounceTimers = [i \in 1 .. Len(@) |-> aged(@[i])],
                  !.sinceResize = aged(@)]

starfieldInit(a, rnd) ==
    [animate(createStars(starfieldResize(a, rnd), rnd), FALSE)
       EXCEPT !.resizeListener = TRUE, !.script = "initialised"]

(***************************************************************************)
(* Photorealistic Milky Way (unnamed/part_001).                            *)
(***************************************************************************)

milkywayResize(a) ==
    [a EXCEPT !.canvas = a.viewport, !.resizeHandled = TRUE, !.redrawn = FALSE]

milkywayInit(a) ==
    IF ~a.element THEN [a EXCEPT !.script = "returned", !.errorLogged = TRUE]
    ELSE [animate([a EXCEPT !.canvas = a.viewport,
                            !.stars = [NoStars EXCEPT
                                !.count = milkyWayCoreStars + milkyWayEdgeStars
                                          + whiteStars]], FALSE)
            EXCEPT !.resizeListener = TRUE, !.script = "initialised"]

(***************************************************************************)
(* Three.js galaxy (unnamed/part_002).                                     *)
(***************************************************************************)

onWindowResize(a) ==
    [a EXCEPT !.canvas = a.viewport, !.resizeHandled = TRUE, !.redrawn = FALSE]

\* init(): 'new THREE.Scene()' is a ReferenceError without the library; the
\* renderer is created and sized before 'container.appendChild', which is a
\* TypeError on a missing container.
galaxyInit(a) ==
    IF ~a.library THEN [a EXCEPT !.script = "threw"]
    ELSE IF ~a.element
      THEN [a EXCEPT !.webgl = "live", !.canvas = a.viewport, !.script = "threw"]
    ELSE [animate([a EXCEPT !.webgl = "live", !.canvas = a.viewport,
                            !.stars = [NoStars EXCEPT !.count = galaxyStarCount],
                            !.resizeListener = TRUE], FALSE)
            EXCEPT !.script = "initialised"]

(***************************************************************************)
(* Celestial chart with canvas fallback (unnamed/part_000).                *)
(***************************************************************************)

\* startD3Animation(): one interval, guarded by animationRunning.
startD3Animation(a) ==
    IF a.animationRunning THEN a
    ELSE [a EXCEPT !.animationRunning = TRUE, !.animationInterval = "active",
                   !.intervals = @ + 1]

\* Variant of initD3Celestial that starts the interval before it calls
\* Celestial.display, so that a throwing display leaves the interval running.
initD3Celestial_startsBeforeDisplay(a, displayOk) ==
    IF ~a.element THEN [a EXCEPT !.errorLogged = TRUE]
    ELSE IF displayOk THEN startD3Animation([a EXCEPT !.renderer = "celestial"])
    ELSE [startD3Animation(a) EXCEPT !.errorLogged = TRUE]

\* initD3Celestial(): displayOk is whether Celestial.display(config) returns
\* (it may throw); the call succeeded iff the renderer is "celestial" after.
initD3Celestial(a, displayOk) ==
    IF ~a.element THEN [a EXCEPT !.errorLogged = TRUE]
    ELSE IF displayOk THEN startD3Animation([a EXCEPT !.renderer = "celestial"])
    ELSE [a EXCEPT !.errorLogged = TRUE]

\* generateStars(): both arrays are filled for the current canvas size.
generateStars(a, rnd) ==
    [a EXCEPT !.stars = Scatter(fallbackStars, fallbackBandStars, a.canvas, rnd)]

\* resize() of the fallback: the canvas takes the window's size.
fallbackResize(a, rnd) ==
    [a EXCEPT !.canvas = a.viewport, !.resizeHandled = TRUE, !.redrawn = FALSE]

initCanvasFallback(a, rnd) ==
    IF ~a.element THEN [a EXCEPT !.errorLogged = TRUE]
    ELSE [animate(generateStars([a EXCEPT !.canvas = a.viewport], rnd), FALSE)
            EXCEPT !.renderer = "canvas", !.resizeListener = TRUE]

\* init() of the chart: D3-Celestial when both libraries are there and its
\* initialisation succeeds, the canvas fallback otherwise.
chartInit(a, rnd, displayOk) ==
    LET called == [a EXCEPT !.initCalls = @ + 1]
        tried  == initD3Celestial(called, displayOk)
        done   == IF ~called.library
                    THEN initCanvasFallback([called EXCEPT !.useFallback = TRUE], rnd)
                  ELSE IF tried.renderer = "celestial" THEN tried
                  ELSE initCanvasFallback([tried EXCEPT !.useFallback = TRUE], rnd)
    IN  [done EXCEPT !.script = IF done.renderer = "none" THEN "returned"
                                ELSE "initialised"]

\* Variant of checkAndInit that polls again after it has called init.
checkAndInit_keepsPolling(a, rnd, displayOk) ==
    LET counted == [a EXCEPT !.checkAttempts = @ + 1, !.script = "polling"]
    IN  IF counted.readyState \in {"complete", "interactive"}
             /\ (counted.library \/ counted.checkAttempts >= maxAttempts)
          THEN [chartInit(counted, rnd, displayOk) EXCEPT !.pollTimer = TRUE]
          ELSE [counted EXCEPT !.pollTimer = TRUE]

\* checkAndInit(): one poll.  Every poll is counted; the count is looked at
\* only once the document is interactive or complete.
checkAndInit(a, rnd, displayOk) ==
    LET counted == [a EXCEPT !.checkAttempts = @ + 1, !.script = "polling"]
    IN  IF counted.readyState \in {"complete", "interactive"}
          THEN IF counted.library THEN chartInit(counted, rnd, displayOk)
               ELSE IF counted.checkAttempts >= maxAttempts
                 THEN chartInit([counted EXCEPT !.useFallback = TRUE], rnd, displayOk)
               ELSE [counted EXCEPT !.pollTimer = TRUE]
          ELSE [counted EXCEPT !.pollTimer = TRUE]

(***************************************************************************)
(* D3-Celestial chart (scripts/night-sky.js, second script).               *)
(***************************************************************************)

\* startAnimation(): one interval, guarded by animationRunning.
startAnimation(a) ==
    IF a.animationRunning THEN a
    ELSE [a EXCEPT !.animationRunning = TRUE, !.animationInterval = "active",
                   !.intervals = @ + 1]

\* stopAnimation(): clears the timer animationInterval names, if it names one.
stopAnimation(a) ==
    IF a.animationInterval = "undefined" THEN a
    ELSE [a EXCEPT !.intervals = IF a.animationInterval = "active" THEN @ - 1 ELSE @,
                   !.animationInterval = "cleared",
                   !.animationRunning = FALSE]

\* init(): the clock is set to its initial time; displayOk is whether
\* Celestial.display(config) returns (it may throw).
celestialInit(a, displayOk) ==
    LET called == [a EXCEPT !.initCalls = @ + 1]
    IN  IF ~called.element \/ ~called.library
          THEN [called EXCEPT !.errorLogged = TRUE, !.script = "returned"]
        ELSE IF displayOk
          THEN [startAnimation([called EXCEPT !.currentTime = 0,
                                              !.renderer = "celestial"])
                  EXCEPT !.script = "initialised"]
        ELSE [called EXCEPT !.currentTime = 0, !.errorLogged = TRUE,
                            !.script = "returned"]

\* handleResize(): Celestial.resize() when the library is there.
handleResize(a) ==
    IF a.library THEN [a EXCEPT !.resizeHandled = TRUE] ELSE a

\* cleanup(): the 'beforeunload' listener.
celestialCleanup(a) == stopAnimation(a)

\* checkAndInit(): one poll; it keeps no count and gives up never.
celestialCheckAndInit(a, displayOk) ==
    LET polled == [a EXCEPT !.checkAttempts = @ + 1, !.script = "polling"]
    IN  IF polled.library THEN celestialInit(polled, displayOk)
        ELSE [polled EXCEPT !.pollTimer = TRUE]

\* Variant of the interval callback that advances the clock only after the
\* library calls have returned.
intervalCallback_advanceAfterRedraw(a, threw) ==
    [a EXCEPT !.currentTime = IF threw = "none" THEN @ + 1000 * timeSpeed ELSE @,
              !.redraws = IF threw = "none" THEN @ + 1 ELSE @,
              !.errorLogged = @ \/ threw # "none",
              !.ticks = @ + 1]

\* The callback of the interval (both charts): the clock advances by
\* 1000 * timeSpeed ms, then Celestial.date(currentTime) and
\* Celestial.redraw() are called inside try/catch.  threw is the call that
\* throws: "none", "date" or "redraw".
intervalCallback(a, threw) ==
    [a EXCEPT !.currentTime = @ + 1000 * timeSpeed,
              !.redraws = IF threw = "none" THEN @ + 1 ELSE @,
              !.errorLogged = @ \/ threw # "none",
              !.ticks = @ + 1]

(***************************************************************************)
(* What each script does when it is executed, and its event handlers.      *)
(***************************************************************************)

\* init of the variants that wait for the document with DOMContentLoaded.
variantInit(a, rnd) ==
    CASE a.variant = "foreground" -> foregroundInit(a, rnd)
      [] a.variant = "starfield"  -> starfieldInit(a, rnd)
      [] a.variant = "milkyway"   -> milkywayInit(a)
      [] a.variant = "galaxy"     -> galaxyInit(a)

\* The script's top level.  The simple starfield looks its canvas up and
\* calls getContext on it right there; it and the Milky Way and the galaxy
\* register their beforeunload handler before they initialise; the chart
\* starts polling; the D3-Celestial script of night-sky.js polls once the
\* document is parsed and registers its resize and beforeunload listeners
\* after that.
runScript(a, rnd, displayOk) ==
    LET top == IF a.variant \in {"starfield", "milkyway", "galaxy"}
                 THEN [a EXCEPT !.unloadListener = TRUE] ELSE a
        all == [a EXCEPT !.resizeListener = TRUE, !.unloadListener = TRUE]
    IN  IF a.variant = "chart" THEN checkAndInit(a, rnd, displayOk)
        ELSE IF a.variant = "celestial"
          THEN IF a.readyState = "loading" THEN [all EXCEPT !.script = "waitingDOM"]
               ELSE [celestialCheckAndInit(a, displayOk)
                       EXCEPT !.resizeListener = TRUE, !.unloadListener = TRUE]
        ELSE IF a.variant = "starfield" /\ ~a.element THEN [a EXCEPT !.script = "threw"]
        ELSE IF a.readyState = "loading" THEN [top EXCEPT !.script = "waitingDOM"]
        ELSE variantInit(top, rnd)

\* The 'resize' listener of the page's variant.
resizeHandler(a, rnd) ==
    IF ~a.resizeListener THEN a
    ELSE CASE a.variant = "foreground" -> foregroundResize(a, rnd)
           [] a.variant = "starfield"  -> executedFunction(a)
           [] a.variant = "chart"      -> fallbackResize(a, rnd)
           [] a.variant = "milkyway"   -> milkywayResize(a)
           [] a.variant = "galaxy"     -> onWindowResize(a)
           [] a.variant = "celestial"  -> handleResize(a)

\* The 'beforeunload' listener of the variants that register one: cancel the
\* request whose handle animationId holds; the galaxy also disposes of its
\* renderer.
unloadHandler(a) ==
    LET cancelled == IF a.animationId # 0
                       THEN cancelAnimationFrame(a, a.animationId) ELSE a
    IN  IF ~a.unloadListener THEN a
        ELSE IF a.variant = "celestial" THEN celestialCleanup(a)
        ELSE IF a.variant = "galaxy" /\ a.webgl # "none"
          THEN [cancelled EXCEPT !.webgl = "disposed"]
        ELSE cancelled

(***************************************************************************)
(* Actions of an animator page.                                            *)
(***************************************************************************)

\* The browser executes the script.
RunScript ==
    /\ anim.script = "notRun"
    /\ \E rnd \in Draws, displayOk \in BOOLEAN :
          anim' = runScript(anim, rnd, displayOk)
    /\ UNCHANGED loaderVars

\* The document has been parsed: readyState becomes "interactive" and the
\* DOMContentLoaded listeners run.
DOMContentLoaded ==
    /\ anim.script # "notRun"
    /\ anim.readyState = "loading"
    /\ \E rnd \in Draws, displayOk \in BOOLEAN :
          LET parsed == [anim EXCEPT !.readyState = "interactive"]
          IN  anim' = IF anim.script # "waitingDOM" THEN parsed
                      ELSE IF anim.variant = "celestial"
                        THEN celestialCheckAndInit(parsed, displayOk)
                      ELSE variantInit(parsed, rnd)
    /\ UNCHANGED loaderVars

\* The page's resources have loaded.  (Followed while the script still waits
\* to initialise: no script reads readyState afterwards.)
PageLoaded ==
    /\ anim.script \in {"waitingDOM", "polling"}
    /\ anim.readyState = "interactive"
    /\ anim' = [anim EXCEPT !.readyState = "complete"]
    /\ UNCHANGED loaderVars

\* The library scripts define their globals.  (Followed while the script
\* still waits to initialise: no script tests for them afterwards.)
LibraryLoads ==
    /\ anim.variant \in LibraryUsers
    /\ anim.script \in {"waitingDOM", "polling"}
    /\ ~anim.library
    /\ anim' = [anim EXCEPT !.library = TRUE]
    /\ UNCHANGED loaderVars

\* The timeout of checkAndInit fires.
PollTimer ==
    /\ anim.pollTimer
    /\ anim.checkAttempts < MaxPolls
    /\ \E rnd \in Draws, displayOk \in BOOLEAN :
          LET fired == [anim EXCEPT !.pollTimer = FALSE]
          IN  anim' = IF anim.variant = "celestial"
                        THEN celestialCheckAndInit(fired, displayOk)
                        ELSE checkAndInit(fired, rnd, displayOk)
    /\ UNCHANGED loaderVars

\* The browser runs a pending animation-frame callback.
AnimationFrame ==
    /\ anim.framesRun < MaxFrames
    /\ \E id \in anim.rafPending :
          anim' = animate([anim EXCEPT !.rafPending = @ \ {id},
                                       !.framesRun = @ + 1], TRUE)
    /\ UNCHANGED loaderVars

\* An active interval fires.
IntervalTick ==
    /\ anim.intervals > 0
    /\ anim.ticks < MaxTicks
    /\ \E threw \in {"none", "date", "redraw"} :
          anim' = intervalCallback(anim, threw)
    /\ UNCHANGED loaderVars

\* The window is resized and 'resize' is dispatched.  Only the listener of
\* the foreground stars draws random numbers.
WindowResize ==
    /\ anim.script # "notRun"
    /\ \E viewport \in Viewports \ {anim.viewport} :
          \E rnd \in IF anim.variant = "foreground" /\ anim.resizeListener
                       THEN Draws ELSE {CHOOSE d \in Draws : TRUE} :
             anim' = resizeHandler([anim EXCEPT !.viewport = viewport], rnd)
    /\ UNCHANGED loaderVars

\* The starfield's debounce timeout fires: resize() runs.
DebounceTimer ==
    /\ \E i \in 1 .. Len(anim.debounceTimers), rnd \in Draws :
          /\ anim.debounceTimers[i] >= debounceWait
          /\ anim' = later(anim, i, rnd)
    /\ UNCHANGED loaderVars

\* Time passes while a timeout of the debounce is pending.
TimePasses ==
    /\ anim.debounceTimers # << >>
    /\ \E i \in 1 .. Len(anim.debounceTimers) : anim.debounceTimers[i] < debounceWait
    /\ anim' = elapse(anim)
    /\ UNCHANGED loaderVars

\* 'beforeunload' is dispatched (the page is about to be left; it lives on
\* until it is unloaded, or for good when the navigation is cancelled).
BeforeUnload ==
    /\ anim.script # "notRun"
    /\ anim' = [unloadHandler(anim) EXCEPT !.unloadRan = TRUE]
    /\ UNCHANGED loaderVars

NextAnimators ==
    \/ RunScript
    \/ DOMContentLoaded
    \/ PageLoaded
    \/ LibraryLoads
    \/ PollTimer
    \/ AnimationFrame
    \/ IntervalTick
    \/ WindowResize
    \/ DebounceTimer
    \/ TimePasses
    \/ BeforeUnload

SpecAnimators == InitAnimators /\ [][NextAnimators]_vars

(***************************************************************************)
(* The twinkle of one star of the simple starfield (scripts/night-sky.js,  *)
(* class Star), with opacities followed in steps of 1 / Resolution.        *)
(***************************************************************************)

\* Opacity steps per tenth.
OpacitySteps == 100

Resolution == 10 * OpacitySteps

\* The bounds 1 and 0.3 of update(), and CONFIG.twinkleSpeed = 0.005.
maxOpacity == Resolution
minOpacity == (3 * Resolution) \div 10
configTwinkleSpeed == (5 * Resolution) \div 1000

\* new Star(): opacity = Math.random() * 0.5 + 0.5, twinkleSpeed =
\* Math.random() * CONFIG.twinkleSpeed + CONFIG.twinkleSpeed,
\* twinkleDirection = Math.random() > 0.5 ? 1 : -1.
NewStars ==
    { [opacity |-> o, twinkleSpeed |-> t, twinkleDirection |-> d] :
        o \in Resolution \div 2 .. Resolution - 1,
        t \in configTwinkleSpeed .. 2 * configTwinkleSpeed - 1,
        d \in {1, -1} }

\* Variant of update() without the lower bound.
update_noLowerBound(star) ==
    LET moved == star.opacity + star.twinkleSpeed * star.twinkleDirection
    IN  IF moved >= maxOpacity
          THEN [star EXCEPT !.opacity = maxOpacity, !.twinkleDirection = -1]
          ELSE [star EXCEPT !.opacity = moved]

\* Star.update()
update(star) ==
    LET moved == star.opacity + star.twinkleSpeed * star.twinkleDirection
    IN  IF moved >= maxOpacity
          THEN [star EXCEPT !.opacity = maxOpacity, !.twinkleDirection = -1]
        ELSE IF moved <= minOpacity
          THEN [star EXCEPT !.opacity = minOpacity, !.twinkleDirection = 1]
        ELSE [star EXCEPT !.opacity = moved]

\* A star as its constructor leaves it, on the page of the simple starfield.
InitTwinkle ==
    /\ dom = IntendedPage
    /\ hasIO = TRUE
    /\ LoaderParsed
    /\ anim \in { [variant |-> "star", star |-> s] : s \in NewStars }

\* A frame of animate() updates the star.
StarUpdate ==
    /\ anim.variant = "star"
    /\ anim' = [anim EXCEPT !.star = update(@)]
    /\ UNCHANGED loaderVars

NextTwinkle == StarUpdate

SpecTwinkle == InitTwinkle /\ [][NextTwinkle]_vars

(***************************************************************************)
(* Properties of the lazy video loader.                                    *)
(***************************************************************************)

\* C1: for every lazy video element and every sequence of intersection
\* callbacks, the element's source is attached and load() is started at most
\* once.
C1_LoadsAtMostOnce ==
    \A v \in Videos : video[v].sources <= 1 /\ video[v].loads <= 1

\* C2: in observer mode, once handleIntersection has processed an
\* intersecting entry for a video, the lazy-load observer no longer observes
\* it and holds no entry for it, and no later step invokes loadVideo on it;
\* a callback whose entries for a video are all non-intersecting leaves the
\* video observed (if it was) and without source or load.
C2_Step ==
    \A v \in Videos :
        /\ reported'[v] => v \notin lazyObs' /\ lazyQ'[v] = << >>
        /\ reported[v] => loadVideoCalls'[v] = loadVideoCalls[v]
        /\ (lazyQ[v] # << >> /\ lazyQ'[v] = << >> /\ Intersecting(lazyQ[v]) = 0)
               => /\ v \in lazyObs => v \in lazyObs'
                  /\ ~reported'[v]
                  /\ video'[v] = FreshVideo

C2_ObservedOnceOnly == [][hasIO => C2_Step]_vars

\* C2 witness: one video was reported intersecting, was loaded by exactly
\* that callback and is unobserved, while another video got only
\* non-intersecting entries, all delivered, and is still observed and fresh.
C2_Witness ==
    \E v, w \in Videos :
        /\ reported[v] /\ v \notin lazyObs /\ video[v].sources = 1
        /\ ~reported[w] /\ w \in lazyObs /\ lazyQ[w] = << >>
        /\ video[w] = FreshVideo

\* C3: in observer mode no video has a source attached, load() called or
\* its media selected before an intersection callback has reported it as
\* intersecting.
C3_NoLoadBeforeIntersecting ==
    hasIO =>
        \A v \in Videos :
            (video[v].sources > 0 \/ video[v].loads > 0 \/ video[v].media # "empty")
                => reported[v]

\* C3 witness: a delivered callback reported one video as not intersecting
\* and left it untouched, and has loaded another one it reported intersecting.
C3_Witness ==
    /\ hasIO
    /\ \E v, w \in Videos :
          /\ reported[v] /\ video[v].sources > 0 /\ video[v].loads > 0
          /\ ~reported[w] /\ lazyQ[w] = << >> /\ phase = "running"
          /\ video[w].sources = 0 /\ video[w].loads = 0

\* C4: whenever loadeddata has fired for a video, the element is marked
\* loaded, playback was requested and (until cleanup) its identifier is in
\* the loaded-set; the loader's automatic play request is issued at most once
\* per video.
C4_AutoplayAtMostOnce ==
    \A v \in Videos :
        /\ video[v].media = "ready"
              => /\ video[v].loaded
                 /\ video[v].autoPlays >= 1
                 /\ phase = "running" => videoId(v) \in loadedVideos
        /\ video[v].autoPlays <= 1

C6_FailedShowsGlyphNeverPlays ==
    \A v \in Videos :
        video[v].everFailed
            => /\ video[v].media = "failed"
               /\ dom[v].overlay = "loader" => video[v].glyph
               /\ video[v].onLoadeddata >= 1
               /\ video[v].autoPlays = 0
               /\ video[v].buttons = 0
               /\ video[v].paused
               /\ lastPlay # << >> => lastPlay[1] # v

\* C6 witness: a failed video shows the glyph while its pause/resume observer,
\* still observing, has delivered every entry and last saw the card visible.
C6_Witness ==
    \E v \in Videos :
        /\ video[v].everFailed /\ video[v].glyph
        /\ v \in pauseObs /\ pauseReg[v] /\ pauseQ[v] = << >>

\* C7: from the failure on, no step attaches another source to the failed
\* element or calls load() on it.
C7_Step ==
    \A v \in Videos :
        video'[v].everFailed
            => /\ video'[v].sources = video[v].sources
               /\ video'[v].loads = video[v].loads

C8_Step ==
    \A v \in Videos :
        /\ dom[v].overlay # "none"
              => /\ video'[v].aborted < video[v].aborted
                       => video'[v].buttons = video[v].buttons + 1
                 /\ (video'[v].autoPlays > video[v].autoPlays
                        /\ video'[v].pending = video[v].pending)
                       => video'[v].buttons = video[v].buttons
                            + (video'[v].autoPlays - video[v].autoPlays)
        /\ video'[v].buttons < video[v].buttons
              => /\ video'[v].buttons = video[v].buttons - 1
                 /\ lastPlay' = <<v, "playButton">>
                 /\ ~video'[v].paused

C8_RejectedAutoplayGetsButton == [][C8_Step]_vars

\* C8 witness: the one automatic play request of a video was rejected, the
\* button it got was clicked, and the video plays with no button left.
C8_Witness ==
    \E v \in Videos :
        /\ lastPlay = <<v, "playButton">>
        /\ video[v].autoPlays = 1 /\ video[v].pending = 0
        /\ video[v].buttons = 0 /\ ~video[v].paused

\* The pause/resume observer of v delivers its entries in this step.
PauseDelivered(v) ==
    pauseQ[v] # << >> /\ pauseQ'[v] = << >>

\* C9: when the pause/resume observer reports the card below the threshold,
\* a playing video is paused: after a callback whose last entry is below the
\* threshold the video is paused, and when a playing, ready video gets "below"
\* followed by "above" in one callback, the second entry finds it paused and
\* requests play().
C9_Step ==
    \A v \in Videos :
        PauseDelivered(v)
            => /\ ~Last(pauseQ[v]) => video'[v].paused
               /\ (~video[v].paused /\ ~Head(pauseQ[v]) /\ Len(pauseQ[v]) > 1)
                     => lastPlay' = <<v, "pauseObserver">>

C9_PausedBelowThreshold == [][C9_Step]_vars

\* C9 witness: a video whose automatic play request was still pending, so
\* that it was playing, has been paused by a delivered "below threshold".
C9_Witness ==
    \E v \in Videos :
        /\ video[v].paused /\ video[v].aborted > 0
        /\ v \in pauseObs /\ ~pauseReg[v] /\ pauseQ[v] = << >>

\* C10: a callback of the pause/resume observer requests play() if and only
\* if the media is ready (readyState >= 2) and some entry reporting the card
\* above the threshold finds the video paused (the first entry when the
\* video was paused before, a later one always, as it follows a "below");
\* when the media is not ready the callback leaves the element as it was.
C10_Step ==
    \A v \in Videos :
        PauseDelivered(v)
            => LET q == pauseQ[v]
                   foundPaused == \/ Head(q) /\ video[v].paused
                                  \/ \E i \in 2..Len(q) : q[i]
               IN  /\ lastPlay' = <<v, "pauseObserver">>
                         <=> (foundPaused /\ video[v].media = "ready")
                   /\ video[v].media # "ready" => video'[v] = video[v]

C10_ResumeOnlyWhenReady == [][C10_Step]_vars

\* C10 witness: the observer has resumed a ready video whose card is back
\* above the threshold.
C10_Witness ==
    \E v \in Videos :
        /\ lastPlay = <<v, "pauseObserver">>
        /\ video[v].media = "ready" /\ pauseReg[v] /\ ~video[v].paused

\* C11: in a browser without IntersectionObserver, init creates no observer
\* and, during initialisation, starts the load of every lazy video that has
\* a data-src exactly once (and of no other video).
C11_FallbackLoadsAllOnce ==
    (~hasIO /\ phase # "parsed") =>
        /\ DOMAIN observers = {}
        /\ lazyObs = {}
        /\ pauseObs = {}
        /\ \A v \in Videos :
              /\ video[v].loads = (IF dom[v].src THEN 1 ELSE 0)
              /\ video[v].sources = video[v].loads
              /\ loadVideoCalls[v] = 1

\* The fallback has run on a page where one video has a data-src and the
\* other has none: the first is loading, the second was left alone.
C11_Witness ==
    /\ ~hasIO
    /\ phase = "running"
    /\ \E v, w \in Videos :
          /\ dom[v].src /\ video[v].loads = 1 /\ video[v].media = "loading"
          /\ ~dom[w].src /\ video[w].loads = 0

\* C12: the step in which cleanup runs leaves every IntersectionObserver the
\* loader created disconnected (the lazy-load observer and every video's
\* pause/resume observer observe nothing any more), and leaves the loaded-set
\* and the observer registry empty.
C12_Step ==
    (phase = "running" /\ phase' = "cleaned") =>
        /\ lazyObs' = {}
        /\ pauseObs' = {}
        /\ loadedVideos' = {}
        /\ DOMAIN observers' = {}

C12_CleanupDisconnectsAll == [][C12_Step]_vars

\* C17: whatever the other elements of the page have done, a video with a
\* data-src that was reported intersecting to handleIntersection has started
\* its own load: another element finishing its load never prevents it.
C17_LoadNotBlockedByOthers ==
    \A v \in Videos :
        (reported[v] /\ dom[v].src) => video[v].loads >= 1

\* C18: a callback of a pause/resume observer only pauses and plays: it
\* attaches no source, registers no listener, calls load() on no element and
\* leaves the loaded-set as it was, so the video keeps the source it loaded.
C18_Step ==
    \A v \in Videos :
        PauseDelivered(v)
            => /\ loadedVideos' = loadedVideos
               /\ \A w \in Videos :
                     /\ video'[w].sources = video[w].sources
                     /\ video'[w].loads = video[w].loads
                     /\ video'[w].media = video[w].media
                     /\ video'[w].onLoadeddata = video[w].onLoadeddata
                     /\ video'[w].onError = video[w].onError

C18_PauseObserverNeverLoads == [][C18_Step]_vars

\* C18 witness: a video that was paused by its pause/resume observer while
\* playing has just been resumed by it, and still has its one source, loaded
\* once.
C18_Witness ==
    \E v \in Videos :
        /\ lastPlay = <<v, "pauseObserver">>
        /\ ~video[v].paused
        /\ video[v].aborted > 0
        /\ video[v].media = "ready"
        /\ video[v].sources = 1 /\ video[v].loads = 1

\* C19: once cleanup has run, no callback of the loader changes the loader's
\* state or starts playback: in every later step the loaded-set stays empty
\* and handleVideoLoaded issues no play() request.
C19_Step ==
    phase = "cleaned" =>
        /\ loadedVideos' = {}
        /\ \A v \in Videos : video'[v].autoPlays = video[v].autoPlays

C19_NoCallbackAfterCleanup == [][C19_Step]_vars

(***************************************************************************)
(* Properties of the background animators.                                 *)
(***************************************************************************)

\* C13: in every animator variant (all of them draw with
\* requestAnimationFrame, the chart in its canvas fallback), once
\* beforeunload has been dispatched and its handlers have run, no
\* animation-frame callback executes any more.
C13_Step ==
    anim.unloadRan => anim'.framesRun = anim.framesRun

C13_NoFrameAfterTeardown == [][C13_Step]_vars

\* C14: in the simple starfield, once a resize has been handled (the
\* debounced resize() has run), the particle set has exactly starCount = 300
\* particles and all of them lie inside the canvas (0 <= x <= width,
\* 0 <= y <= height), whose size is the window's unless a newer resize is
\* still waiting for its debounce; so the first redraw after the resize, and
\* every later one, draws no particle outside the new bounds.
C14_ResizeRegeneratesInBounds ==
    (anim.variant = "starfield" /\ anim.resizeHandled) =>
        /\ anim.stars.count = starCount
        /\ anim.stars.band = 0
        /\ 0 <= anim.stars.right /\ anim.stars.right <= anim.canvas.w
        /\ 0 <= anim.stars.bottom /\ anim.stars.bottom <= anim.canvas.h
        /\ anim.debounceTimers = << >> => anim.canvas = anim.viewport

\* C14 witness: the starfield has handled a resize to a 2 x 2 window and has
\* drawn a frame since, with particles in the last column and the last row.
C14_Witness ==
    /\ anim.variant = "starfield"
    /\ anim.resizeHandled /\ anim.redrawn /\ anim.framesRun > 0
    /\ anim.canvas = [w |-> 2, h |-> 2]
    /\ anim.stars.count = starCount
    /\ anim.stars.right = 1 /\ anim.stars.bottom = 1

\* The document is parsed (readyState is "interactive" or "complete").
DocumentReady == anim.readyState \in {"interactive", "complete"}

\* This step is a poll of checkAndInit.
Polled == anim'.checkAttempts = anim.checkAttempts + 1

\* C15 as stated: the chart's checkAndInit calls init exactly once and then
\* stops polling, and when the libraries are not there init is called after
\* at most 50 polls and starts the canvas renderer.
C15_InitOnceWithin50Polls ==
    anim.variant = "chart" =>
        /\ anim.initCalls <= 1
        /\ anim.initCalls = 1 => ~anim.pollTimer
        /\ (anim.initCalls = 1 /\ ~anim.library)
              => anim.checkAttempts <= maxAttempts /\ anim.renderer = "canvas"

\* C15, amended: checkAndInit calls init exactly once and then stops
\* polling.  A poll calls init iff the document is parsed and either the
\* libraries are there or it is the 50th poll or a later one (polls made
\* while the document is still loading count, so the call can come after
\* more than 50 polls); every other poll schedules the next one.  Called
\* without the libraries, init starts the canvas renderer when the container
\* exists, and logs an error and starts nothing when it does not.
C15_Step ==
    anim.variant = "chart" =>
        IF Polled
          THEN /\ anim.initCalls = 0
               /\ IF DocumentReady
                       /\ (anim.library \/ anim'.checkAttempts >= maxAttempts)
                    THEN /\ anim'.initCalls = 1
                         /\ ~anim'.pollTimer
                         /\ (~anim.library /\ anim.element)
                               => /\ anim'.renderer = "canvas"
                                  /\ anim'.rafPending # {}
                         /\ ~anim.element
                               => /\ anim'.renderer = "none"
                                  /\ anim'.errorLogged
                                  /\ anim'.rafPending = {}
                    ELSE anim'.initCalls = 0 /\ anim'.pollTimer
          ELSE /\ anim'.initCalls = anim.initCalls
               /\ anim'.pollTimer = anim.pollTimer

C15_InitOnceThenStops == [][C15_Step]_vars

\* C15 witness: the libraries never came, the 50th poll called init, and the
\* canvas renderer is running with no poll scheduled.
C15_Witness ==
    /\ anim.variant = "chart"
    /\ ~anim.library
    /\ anim.initCalls = 1
    /\ anim.checkAttempts = maxAttempts
    /\ anim.renderer = "canvas" /\ anim.framesRun > 0
    /\ ~anim.pollTimer

\* C16: in every animator variant, when the container or canvas the script
\* looks up is missing, the script's initialisation has logged an error and
\* returned without throwing, and has requested no animation frame and left
\* no timer or interval running.
C16_MissingElementHandled ==
    (~anim.element /\ anim.script \in {"initialised", "returned", "threw"}) =>
        /\ anim.script = "returned"
        /\ anim.errorLogged
        /\ anim.rafCount = 0
        /\ ~anim.pollTimer /\ anim.debounceTimers = << >> /\ ~anim.animationRunning

\* C20: in the canvas fallback of the chart, once a resize has been handled
\* the particle set is one generated for the new canvas size: no particle
\* lies beyond the new canvas width.
C20_FallbackResizeInWidth ==
    (anim.variant = "chart" /\ anim.renderer = "canvas" /\ anim.resizeHandled) =>
        anim.stars.right <= anim.canvas.w

(***************************************************************************)
(* Further properties of the lazy video loader.                            *)
(***************************************************************************)

\* C24: a call of loadVideo on an element without data-src attaches no
\* source, registers no loadeddata or error listener, does not call load()
\* and leaves the loaded-set as it was: the step that makes the call changes
\* neither the element nor the set, and such an element never has a source,
\* a listener or a load.
C24_Step ==
    \A v \in Videos :
        (~dom[v].src /\ loadVideoCalls'[v] > loadVideoCalls[v])
            => /\ video'[v] = video[v]
               /\ loadedVideos' = loadedVideos
               /\ video'[v].sources = 0 /\ video'[v].loads = 0
               /\ video'[v].onLoadeddata = 0 /\ video'[v].onError = 0
               /\ video'[v].media = "empty"

C24_NoSrcNoLoad == [][C24_Step]_vars

\* C24 witness: the observer reported a video without data-src intersecting,
\* loadVideo was called on it, and the element is untouched.
C24_Witness ==
    \E v \in Videos :
        /\ ~dom[v].src /\ hasIO /\ reported[v] /\ loadVideoCalls[v] = 1
        /\ video[v] = FreshVideo

\* C25: a video is never playing while its card is below the 50% threshold
\* of its pause/resume observer: whenever that observer last computed the
\* card below the threshold and has delivered that to its callback, the
\* video is paused, whatever the order of load completion and scrolling.
C25_NeverPlayingBelowThreshold ==
    \A v \in Videos :
        (v \in pauseObs /\ ~pauseReg[v] /\ pauseQ[v] = << >>) => video[v].paused

\* C26: a manual play button is shown for a video only while the video is
\* not playing: a video has at most one button, and a playing video has
\* none, by whatever path it started to play.
C26_ButtonOnlyWhilePaused ==
    \A v \in Videos :
        /\ video[v].buttons <= 1
        /\ video[v].buttons > 0 => video[v].paused

(***************************************************************************)
(* Further properties of the background animators.                         *)
(***************************************************************************)

\* C28: in the chart with fallback at most one renderer is active: the
\* interval of the library-driven animation and the animation loop of the
\* canvas fallback are never both running; before init neither runs, and
\* with a missing container neither is ever started.
C28_AtMostOneRenderer ==
    anim.variant = "chart" =>
        /\ ~(anim.animationRunning /\ anim.rafCount > 0)
        /\ (anim.initCalls = 0 \/ ~anim.element)
              => (~anim.animationRunning /\ anim.rafCount = 0)
        /\ anim.animationRunning <=> anim.renderer = "celestial"
        /\ anim.rafCount > 0 <=> anim.renderer = "canvas"

\* C28 witness: both libraries were there, Celestial.display threw, and init
\* fell back to the canvas loop, which runs without the interval.
C28_Witness ==
    /\ anim.variant = "chart"
    /\ anim.initCalls = 1 /\ anim.library /\ anim.element /\ anim.errorLogged
    /\ anim.renderer = "canvas" /\ anim.rafPending # {}
    /\ ~anim.animationRunning


\* C27: foreground stars -- after every frame drawn, the first (direct) call
\* of animate() in init included, deltaTime is a finite non-negative number
\* and every star's x is finite with -50 <= x <= width + 50.  (The drift adds
\* at most 0.3 * deltaTime to a position inside the canvas, so a position that
\* is a number is in range: the modelled right-most star is within the canvas.)
C27_FramesKeepStarsFinite ==
    (anim.variant = "foreground" /\ anim.deltaTime # "none")
        => /\ anim.deltaTime = "finite"
           /\ ~anim.stars.nan
           /\ anim.stars.right <= anim.canvas.w + 50



\* C21: in the D3-Celestial script of night-sky.js the polling of
\* checkAndInit is bounded -- there is a number of polls after which, the
\* libraries still missing, no further poll is scheduled.
C21_PollingBounded ==
    anim.variant = "celestial" =>
        \E bound \in 1 .. MaxPolls :
            (~anim.library /\ anim.checkAttempts >= bound) => ~anim.pollTimer

\* C22: every callback of the celestial interval advances the simulated
\* clock by exactly 1000 * timeSpeed ms = 120 s, whether or not the library
\* throws in it, and requests the redraw (which happens unless the library
\* threw); the clock strictly increases and the interval stays active.
C22_Step ==
    anim'.ticks > anim.ticks =>
        /\ anim'.currentTime = anim.currentTime + 120000
        /\ anim'.currentTime > anim.currentTime
        /\ anim'.redraws = anim.redraws + 1 \/ anim'.errorLogged
        /\ anim'.intervals = anim.intervals /\ anim'.intervals > 0
        /\ anim'.animationRunning

C29_Step ==
    anim.variant = "celestial" =>
        /\ anim'.intervals <= 1
        /\ (~anim.unloadRan /\ anim'.unloadRan)
              => (anim'.intervals = 0 /\ ~anim'.animationRunning)
        /\ anim'.ticks > anim.ticks => ~anim.unloadRan

C29_OneIntervalNoneAfterCleanup == [][C29_Step]_vars



\* C23: in the simple starfield resize() runs, through the debounced
\* listener, only once 250 ms have passed since the most recent 'resize'
\* event, and once per burst of events: a run is the first since the last
\* event, and until it has run a timeout for it is pending.
C23_Step ==
    anim.variant = "starfield" =>
        /\ anim'.runsInBurst > anim.runsInBurst
              => /\ anim.sinceResize >= 250
                 /\ anim'.runsInBurst = 1
                 /\ anim'.debounceTimers = << >>
                 /\ anim'.canvas = anim.viewport
        /\ (anim'.burst /\ anim'.runsInBurst = 0) => Len(anim'.debounceTimers) = 1

C23_ResizeDebounced == [][C23_Step]_vars

\* C23 witness: a burst of two events less than 250 ms apart was followed by
\* one run of resize(), 250 ms after the second.
C23_Witness ==
    /\ anim.variant = "starfield"
    /\ anim.burstEvents = 2 /\ anim.runsInBurst = 1
    /\ anim.sinceResize = 250
    /\ anim.debounceTimers = << >>
    /\ anim.resizeHandled



\* C30: in the simple starfield a star's opacity lies in [0.3, 1] after each
\* update, for any initial opacity in [0.5, 1) and any number of frames, and
\* an update flips the twinkle direction exactly when it brings the opacity
\* to one of the two bounds.
C30_Step ==
    /\ 10 * anim'.star.opacity >= 3 * Resolution
    /\ anim'.star.opacity <= Resolution
    /\ anim'.star.twinkleDirection # anim.star.twinkleDirection
          <=> \/ anim'.star.opacity = Resolution
              \/ 10 * anim'.star.opacity = 3 * Resolution

C30_OpacityWithinBounds == [][C30_Step]_vars

\* C30 witness: a star stands at the lower bound 0.3, turned upwards, which
\* only updates can have brought about (its constructor starts at 0.5 or more).
C30_Witness ==
    /\ anim.variant = "star"
    /\ 10 * anim.star.opacity = 3 * Resolution
    /\ anim.star.twinkleDirection = 1


====
